---------------------------- MODULE Spec2Model ----------------------------
(***************************************************************************)
(* Model of the MCP chatbot API: the MCPClient of src/api/mcp_client.py    *)
(* (connection, tool catalog, conversation loop, conversation log) and the *)
(* HTTP handlers and lifespan of src/api/main.py that drive it.            *)
(*                                                                         *)
(* One MCPClient is created for the application's lifetime; every request  *)
(* handler runs as a coroutine on one event loop.  A coroutine keeps the   *)
(* loop until it awaits something that really suspends: the only such      *)
(* awaits are the calls into the MCP session (session.call_tool,           *)
(* session.list_tools).  call_llm uses the synchronous Anthropic client    *)
(* and log_conversation does blocking file I/O, so neither yields.  The    *)
(* variable cur holds the request that owns the event loop (0: nobody).    *)
(***************************************************************************)
EXTENDS Integers, Sequences, FiniteSets, TLC

\* ------------------------------------------------------------------ bounds
MaxQueries == 2   \* process_query invocations in one application lifetime
MaxCalls   == 2   \* model calls in one application lifetime
MaxClock   == 1   \* last clock second of the run (seconds 0..MaxClock)

Requests == {1, 2}            \* request slots the HTTP layer runs concurrently
Queries  == {"What is 2+2?"}  \* QueryRequest.query
Text     == "4"               \* the text of a text block
ToolOut  == "42"              \* result.content of a successful tool call
Lookup   == [name |-> "lookup", description |-> "d-lookup", inputSchema |-> "s-lookup"]
Search   == [name |-> "search", description |-> "d-search", inputSchema |-> "s-search"]
ServerToolSets == {<<Lookup>>, <<Lookup, Search>>}  \* what the tool server may offer

VARIABLES
    app,          \* lifespan: "starting", "serving", "failed", "stopped"
    stack,        \* self.exit_stack: the async contexts entered, in order
    session,      \* self.session: "none" or "open"
    cleanups,     \* number of times client.cleanup() ran
    closeErr,     \* what became of an exception of exit_stack.aclose()
    tools,        \* self.tools: the catalog cached by connect_to_server
    serverTools,  \* the tool objects the tool server offers right now
    messages,     \* self.messages: the shared transcript
    owner,        \* owner[i]: the invocation that appended messages[i]
    clock,        \* datetime.now() in whole seconds, as last read
    files,        \* names (timestamps) of the files in conversations/
    nLogs,        \* log files written so far (open "w" and dump)
    cur,          \* the request running on the event loop, 0 if it is free
    nQueries,     \* process_query invocations started so far
    nextId,       \* tool_use ids the model has handed out so far
    nCalls,       \* model calls made so far
    pc,           \* per request: where its process_query stands
    inv,          \* per request: the number of its invocation
    query,        \* per request: the query argument
    resp,         \* per request: response.content of the last model call
    idx,          \* per request: position of the for loop over response.content
    msgs,         \* per request: the local list `messages` that is returned
    err,          \* per request: what failed ("none", "llm", "tool", "log")
    errMsg,       \* per request: the text of the exception that is raised
    modelCalls,   \* per request: call_llm calls made by this invocation
    toolCalls,    \* per request: session.call_tool calls made by this invocation
    sent,         \* per request: messages= of the last model call
    sentTools,    \* per request: tools= of the last model call
    mark,         \* per request: toolCalls, Len(msgs), Len(messages) when resp arrived
    snap          \* per request: the transcript when the last await started

cvars == <<app, stack, session, cleanups, closeErr, tools, serverTools>>
lvars == <<clock, files, nLogs>>
qvars == <<pc, inv, query, resp, idx, msgs, err, errMsg, modelCalls, toolCalls,
           sent, sentTools, mark, snap>>
vars  == <<cvars, lvars, messages, owner, cur, nQueries, nextId, nCalls,
           qvars>>

\* ----------------------------------------------------------------- helpers
IsPrefix(s, t) == Len(s) <= Len(t) /\ SubSeq(t, 1, Len(s)) = s
IsSuffix(s, t) == Len(s) <= Len(t) /\ SubSeq(t, Len(t) - Len(s) + 1, Len(t)) = s

\* The block types of a response, in order: every arrangement of one block
\* and of two blocks.
Shapes == {<<"text">>, <<"tool_use">>,
           <<"text", "text">>, <<"text", "tool_use">>,
           <<"tool_use", "text">>, <<"tool_use", "tool_use">>}

ToolUsesIn(shape, n) == Cardinality({i \in 1..n : shape[i] = "tool_use"})

\* response.content for a shape; the model gives each tool_use block a fresh id.
Response(shape, base) ==
    [i \in 1..Len(shape) |->
        IF shape[i] = "text"
        THEN [type |-> "text", text |-> Text]
        ELSE [type |-> "tool_use", id |-> base + ToolUsesIn(shape, i),
              name |-> "lookup", input |-> "x"]]

\* The tool descriptors built from the server's tool objects.
Descriptors(ts) ==
    [i \in 1..Len(ts) |-> [name |-> ts[i].name,
                           description |-> ts[i].description,
                           input_schema |-> ts[i].inputSchema]]

\* A message's content is a str or a list of content blocks; the two are
\* kept apart as log_conversation's isinstance tests keep them apart.
Str(t)  == [str |-> t]
List(l) == [list |-> l]

UserMessage(q)      == [role |-> "user", content |-> Str(q)]
AssistantMessage(c) == [role |-> "assistant", content |-> c]
\* Faulty variant of ToolResultMessage: the result does not carry the id of its block.
ToolResultMessage_Uncorrelated(id, out) ==
    [role |-> "user",
     content |-> List(<<[type |-> "tool_result", tool_use_id |-> 0, content |-> out]>>)]

ToolResultMessage(id, out) ==
    [role |-> "user",
     content |-> List(<<[type |-> "tool_result", tool_use_id |-> id, content |-> out]>>)]

\* Faulty variant of IsFinal: the number of blocks is not looked at.
IsFinal_FirstOnly(r) == r[1].type = "text"

\* Faulty variant of IsFinal: no response counts as a simple text response.
IsFinal_Never(r) == Len(r) = 0

\* The test of the loop for "a simple text response".
IsFinal(r) == r[1].type = "text" /\ Len(r) = 1


\* Default values of a request slot that runs no invocation.
NoResp == <<>>
NoMark == [calls |-> 0, n |-> 0, t |-> 0]

Init ==
    /\ app = "starting" /\ stack = <<>> /\ session = "none" /\ cleanups = 0
    /\ closeErr = "none"
    /\ tools = <<>> /\ serverTools = <<Lookup>>
    /\ messages = <<>> /\ owner = <<>>
    /\ clock = 0 /\ files = {} /\ nLogs = 0
    /\ cur = 0 /\ nQueries = 0 /\ nextId = 0 /\ nCalls = 0
    /\ pc = [p \in Requests |-> "idle"]
    /\ inv = [p \in Requests |-> 0]
    /\ query = [p \in Requests |-> ""]
    /\ resp = [p \in Requests |-> NoResp]
    /\ idx = [p \in Requests |-> 0]
    /\ msgs = [p \in Requests |-> <<>>]
    /\ err = [p \in Requests |-> "none"]
    /\ errMsg = [p \in Requests |-> ""]
    /\ modelCalls = [p \in Requests |-> 0]
    /\ toolCalls = [p \in Requests |-> 0]
    /\ sent = [p \in Requests |-> <<>>]
    /\ sentTools = [p \in Requests |-> <<>>]
    /\ mark = [p \in Requests |-> NoMark]
    /\ snap = [p \in Requests |-> <<>>]

\* ------------------------------------------------- lifespan and connection
\* connect_to_server up to the point where it stops: the contexts it has
\* entered on the exit stack, and whether self.session is set.
\* "ext": not .py/.js; "stdio": stdio_client fails; "enter": ClientSession
\* fails to enter; "init": session.initialize fails; "list": get_mcp_tools
\* fails; "ok": the catalog is cached and True is returned.
ConnectStages == {"ext", "stdio", "enter", "init", "list", "ok"}

EnteredAt(stage) ==
    CASE stage \in {"ext", "stdio"} -> <<>>
      [] stage = "enter"            -> <<"stdio">>
      [] OTHER                      -> <<"stdio", "session">>

\* lifespan startup: MCPClient() and connect_to_server(server_script_path).
Startup(stage) ==
    /\ app = "starting"
    /\ stack' = EnteredAt(stage)
    /\ session' = IF stage \in {"init", "list", "ok"} THEN "open" ELSE "none"
    /\ tools' = IF stage = "ok" THEN Descriptors(serverTools) ELSE tools
    /\ app' = IF stage = "ok" THEN "serving" ELSE "failed"
    /\ UNCHANGED <<cleanups, closeErr, serverTools, lvars, messages, owner, cur,
                   nQueries, nextId, nCalls, qvars>>

\* Faulty variant of Cleanup: an exception of aclose() is raised again.
Cleanup_Reraise ==
    /\ stack' = <<>>
    /\ cleanups' = cleanups + 1
    /\ \E closed \in BOOLEAN :
          closeErr' = IF closed \/ stack = <<>> THEN "none" ELSE "raised"

\* MCPClient.cleanup: exit_stack.aclose() leaves every context it had
\* entered, last entered first.  If leaving one of them raises, aclose()
\* raises after the last of them, and line 238 logs and swallows it.
Cleanup ==
    /\ stack' = <<>>
    /\ cleanups' = cleanups + 1
    /\ \E closed \in BOOLEAN :
          closeErr' = IF closed \/ stack = <<>> THEN "none" ELSE "logged"

\* Faulty variant of Shutdown: cleanup is left out after a failed startup.
Shutdown_ServingOnly ==
    /\ \/ app = "failed"
       \/ app = "serving" /\ cur = 0 /\ \A p \in Requests : pc[p] = "idle"
    /\ IF app = "serving" THEN Cleanup ELSE UNCHANGED <<stack, cleanups, closeErr>>
    /\ app' = "stopped"
    /\ UNCHANGED <<session, tools, serverTools, lvars, messages, owner, cur, nQueries, nextId, nCalls, qvars>>

\* lifespan's finally: after a failed startup, or at server shutdown once
\* the requests in flight have been answered.
Shutdown ==
    /\ \/ app = "failed"
       \/ app = "serving" /\ cur = 0 /\ \A p \in Requests : pc[p] = "idle"
    /\ Cleanup
    /\ app' = "stopped"
    /\ UNCHANGED <<session, tools, serverTools, lvars, messages, owner, cur, nQueries, nextId, nCalls, qvars>>

\* The tool server replaces the set of tools it offers (MCP list_changed).
ServerToolsChange ==
    /\ app = "serving"
    /\ serverTools' \in ServerToolSets \ {serverTools}
    /\ UNCHANGED <<app, stack, session, cleanups, closeErr, tools, lvars,
                   messages, owner, cur, nQueries, nextId, nCalls, qvars>>

\* ------------------------------------------------ stateless HTTP endpoints
\* get_mcp_tools: session.list_tools() asks the server each time it is called.
GetMcpTools == serverTools

\* The body GET /tools answers with: the descriptors of what get_mcp_tools
\* returned.
ToolsListing == Descriptors(GetMcpTools)

\* GET /tools: answers ToolsListing, or 500 if get_mcp_tools raised; nothing
\* of the client changes.
ListTools ==
    /\ app = "serving" /\ cur = 0
    /\ \E ok \in BOOLEAN : UNCHANGED vars

\* POST /tool: MCPClient.call_tool forwards to session.call_tool and returns
\* its result or raises "Failed to call tool"; nothing of the client changes.
CallTool ==
    /\ app = "serving" /\ cur = 0
    /\ \E ok \in BOOLEAN : UNCHANGED vars

\* ------------------------------------------------------- conversation log
\* datetime.now() at a log write: the second last read, or a later one.
\* Seconds are counted from the first log write.
Now == IF files = {} THEN {clock} ELSE {t \in {clock, clock + 1} : t <= MaxClock}

\* The file name log_conversation derives from the clock.
LogName(t) == t

\* log_conversation: serialise, then open(filepath, "w") and dump.  With ok
\* the file of this second is created or written over; without, an exception
\* leaves log_conversation and the files stay as they are.
LogConversation(ok) ==
    IF ok
    THEN \E t \in Now :
            /\ clock' = t
            /\ files' = files \cup {LogName(t)}
            /\ nLogs' = nLogs + 1
    ELSE UNCHANGED <<clock, files, nLogs>>

\* ------------------------------------------------------- process_query
\* Faulty variant of AppendTranscript: the transcript is started again with m.
AppendTranscript_Restart(m, i) ==
    /\ messages' = <<m>>
    /\ owner' = <<i>>

\* self.messages.append(m), by invocation i.
AppendTranscript(m, i) ==
    /\ messages' = Append(messages, m)
    /\ owner' = Append(owner, i)

\* Faulty variant of AppendLocal: the message is not added to the local list.
AppendLocal_Skip(p, m) == msgs' = msgs

\* Faulty variant of AppendLocal: the local list is started again with m.
AppendLocal_Reset(p, m) == msgs' = [msgs EXCEPT ![p] = <<m>>]

\* messages.append(m) on the local list that process_query returns.
AppendLocal(p, m) == msgs' = [msgs EXCEPT ![p] = Append(msgs[p], m)]

\* Faulty variant of Raise: the event loop is given up while the exception is
\* on its way to the route.
Raise_Yield(p, cause, text) ==
    /\ pc' = [pc EXCEPT ![p] = "raised"]
    /\ err' = [err EXCEPT ![p] = cause]
    /\ errMsg' = [errMsg EXCEPT ![p] = text]
    /\ cur' = 0

\* An exception leaves process_query: the handler of line 181 logs it and
\* re-raises it to the route, which still runs on the event loop.
Raise(p, cause, text) ==
    /\ pc' = [pc EXCEPT ![p] = "raised"]
    /\ err' = [err EXCEPT ![p] = cause]
    /\ errMsg' = [errMsg EXCEPT ![p] = text]
    /\ cur' = p

\* Faulty variant of NextBlock: after the last block process_query returns instead
\* of calling the model again.
NextBlock_Return(p) ==
    IF idx[p] < Len(resp[p])
    THEN /\ idx' = [idx EXCEPT ![p] = idx[p] + 1]
         /\ pc' = [pc EXCEPT ![p] = "blocks"]
    ELSE /\ idx' = idx
         /\ pc' = [pc EXCEPT ![p] = "done"]

\* The for loop over response.content moves on; after the last block the
\* while loop calls the model again.
NextBlock(p) ==
    IF idx[p] < Len(resp[p])
    THEN /\ idx' = [idx EXCEPT ![p] = idx[p] + 1]
         /\ pc' = [pc EXCEPT ![p] = "blocks"]
    ELSE /\ idx' = idx
         /\ pc' = [pc EXCEPT ![p] = "call_llm"]

\* POST /query enters process_query: the user message is appended to the
\* transcript, the transcript is logged, and the local list starts with it.
Start(p, q) ==
    /\ app = "serving" /\ cur = 0 /\ pc[p] = "idle"
    /\ \A o \in Requests : o < p => pc[o] # "idle"  \* the slots are alike
    /\ nQueries < MaxQueries
    /\ nQueries' = nQueries + 1
    /\ inv' = [inv EXCEPT ![p] = nQueries + 1]
    /\ query' = [query EXCEPT ![p] = q]
    /\ AppendTranscript(UserMessage(q), nQueries + 1)
    /\ \/ /\ LogConversation(TRUE)
          /\ msgs' = [msgs EXCEPT ![p] = <<UserMessage(q)>>]
          /\ pc' = [pc EXCEPT ![p] = "call_llm"]
          /\ cur' = p
          /\ UNCHANGED <<err, errMsg>>
       \/ /\ LogConversation(FALSE)
          /\ Raise(p, "log", "OSError")
          /\ UNCHANGED msgs
    /\ UNCHANGED <<cvars, nextId, nCalls, resp, idx, modelCalls, toolCalls, sent,
                   sentTools, mark, snap>>

\* Faulty variant of LLMFailed: the error is logged and the model is called again.
LLMFailed_Retry(p) ==
    /\ err' = [err EXCEPT ![p] = "llm"]
    /\ errMsg' = [errMsg EXCEPT ![p] = "Failed to call LLM"]
    /\ UNCHANGED <<pc, cur, resp, nextId, mark>>

\* Lines 101-103: the model call raised; call_llm wraps the exception
\* and process_query lets it through.
LLMFailed(p) ==
    /\ Raise(p, "llm", "Failed to call LLM")
    /\ UNCHANGED <<resp, nextId, mark>>

\* call_llm: messages.create(messages=self.messages, tools=self.tools) on
\* the synchronous client; any exception is wrapped and raised again.
CallLLM(p) ==
    /\ pc[p] = "call_llm" /\ cur = p
    /\ nCalls < MaxCalls
    /\ nCalls' = nCalls + 1
    /\ modelCalls' = [modelCalls EXCEPT ![p] = modelCalls[p] + 1]
    /\ sent' = [sent EXCEPT ![p] = messages]
    /\ sentTools' = [sentTools EXCEPT ![p] = tools]
    /\ \/ /\ \E shape \in Shapes :
                /\ resp' = [resp EXCEPT ![p] = Response(shape, nextId)]
                /\ nextId' = nextId + ToolUsesIn(shape, Len(shape))
          /\ mark' = [mark EXCEPT ![p] = [calls |-> toolCalls[p], n |-> Len(msgs[p]),
                                          t |-> Len(messages)]]
          /\ pc' = [pc EXCEPT ![p] = "classify"]
          /\ UNCHANGED <<cur, err, errMsg>>
       \/ LLMFailed(p)
    /\ UNCHANGED <<cvars, lvars, messages, owner, nQueries, inv, query,
                   idx, msgs, toolCalls, snap>>

\* The assistant message the loop builds from a response.
AssistantFor(r) ==
    IF IsFinal(r) THEN AssistantMessage(Str(r[1].text))  \* lines 124-127
    ELSE AssistantMessage(List(r))        \* lines 134-137, to_dict()["content"]

\* Lines 123-140: the response is appended as one assistant message and
\* logged; a simple text response ends the loop and returns the local list.
Classify(p) ==
    /\ pc[p] = "classify" /\ cur = p
    /\ AppendTranscript(AssistantFor(resp[p]), inv[p])
    /\ \/ /\ LogConversation(TRUE)
          /\ AppendLocal(p, AssistantFor(resp[p]))
          /\ IF IsFinal(resp[p])
             THEN /\ pc' = [pc EXCEPT ![p] = "done"]
                  /\ idx' = idx
             ELSE /\ pc' = [pc EXCEPT ![p] = "blocks"]
                  /\ idx' = [idx EXCEPT ![p] = 1]
          /\ UNCHANGED <<cur, err, errMsg>>
       \/ /\ LogConversation(FALSE)
          /\ Raise(p, "log", "OSError")
          /\ UNCHANGED <<msgs, idx>>
    /\ UNCHANGED <<cvars, nQueries, nextId, nCalls, inv, query, resp, modelCalls,
                   toolCalls, sent, sentTools, mark, snap>>

\* Faulty variant of RecordText: the text message is appended to the transcript
\* as well.
RecordText_AsTurn(p, m) ==
    /\ AppendLocal(p, m)
    /\ AppendTranscript(m, inv[p])

\* Line 147: the text message goes to the local list; self.messages is not
\* touched.
RecordText(p, m) ==
    /\ AppendLocal(p, m)
    /\ UNCHANGED <<messages, owner>>

\* Lines 143-147: a text block of a complex response: the transcript is
\* logged as it is and the text message is added to the local list only.
TextBlock(p) ==
    /\ pc[p] = "blocks" /\ cur = p
    /\ resp[p][idx[p]].type = "text"
    /\ \/ /\ LogConversation(TRUE)
          /\ RecordText(p, AssistantMessage(Str(resp[p][idx[p]].text)))
          /\ NextBlock(p)
          /\ UNCHANGED <<cur, err, errMsg>>
       \/ /\ LogConversation(FALSE)
          /\ Raise(p, "log", "OSError")
          /\ UNCHANGED <<msgs, idx, messages, owner>>
    /\ UNCHANGED <<cvars, nQueries, nextId, nCalls, inv, query,
                   resp, modelCalls, toolCalls, sent, sentTools, mark, snap>>

\* Lines 148-158: a tool_use block starts session.call_tool and the
\* coroutine suspends until the tool server answers.
ToolCall(p) ==
    /\ pc[p] = "blocks" /\ cur = p
    /\ resp[p][idx[p]].type = "tool_use"
    /\ toolCalls' = [toolCalls EXCEPT ![p] = toolCalls[p] + 1]
    /\ snap' = [snap EXCEPT ![p] = messages]
    /\ pc' = [pc EXCEPT ![p] = "tool_wait"]
    /\ cur' = 0
    /\ UNCHANGED <<cvars, lvars, messages, owner, nQueries, nextId, nCalls, inv,
                   query, resp, idx, msgs, err, errMsg, modelCalls, sent,
                   sentTools, mark>>

\* Faulty variant of ToolFailed: the error is logged and the loop goes on with the
\* next block.
ToolFailed_Skip(p) ==
    /\ err' = [err EXCEPT ![p] = "tool"]
    /\ errMsg' = [errMsg EXCEPT ![p] = "Tool execution failed"]
    /\ NextBlock(p)
    /\ cur' = p
    /\ UNCHANGED <<messages, owner, lvars, msgs>>

\* Lines 174-177: session.call_tool raised.
ToolFailed(p) ==
    /\ Raise(p, "tool", "Tool execution failed")
    /\ UNCHANGED <<messages, owner, lvars, msgs, idx>>

\* Lines 158-177: the tool call returns or raises.  Its result is appended
\* as a tool_result message, logged and added to the local list; whatever
\* is raised inside the try block leaves as "Tool execution failed".
ToolReturn(p) ==
    /\ pc[p] = "tool_wait" /\ cur = 0
    /\ \/ /\ AppendTranscript(ToolResultMessage(resp[p][idx[p]].id, ToolOut), inv[p])
          /\ \/ /\ LogConversation(TRUE)
                /\ AppendLocal(p, ToolResultMessage(resp[p][idx[p]].id, ToolOut))
                /\ NextBlock(p)
                /\ cur' = p
                /\ UNCHANGED <<err, errMsg>>
             \/ /\ LogConversation(FALSE)
                /\ Raise(p, "log", "Tool execution failed")
                /\ UNCHANGED <<msgs, idx>>
       \/ ToolFailed(p)
    /\ UNCHANGED <<cvars, nQueries, nextId, nCalls, inv, query, resp, modelCalls,
                   toolCalls, sent, sentTools, mark, snap>>

\* POST /query answers: {"messages": messages}, or a 500 carrying the error.
\* The route returns without another await, so nothing ran in between.
Respond(p) ==
    /\ pc[p] \in {"done", "raised"} /\ cur = p
    /\ cur' = 0
    /\ pc' = [pc EXCEPT ![p] = "idle"]
    /\ inv' = [inv EXCEPT ![p] = 0]
    /\ query' = [query EXCEPT ![p] = ""]
    /\ resp' = [resp EXCEPT ![p] = NoResp]
    /\ idx' = [idx EXCEPT ![p] = 0]
    /\ msgs' = [msgs EXCEPT ![p] = <<>>]
    /\ err' = [err EXCEPT ![p] = "none"]
    /\ errMsg' = [errMsg EXCEPT ![p] = ""]
    /\ modelCalls' = [modelCalls EXCEPT ![p] = 0]
    /\ toolCalls' = [toolCalls EXCEPT ![p] = 0]
    /\ sent' = [sent EXCEPT ![p] = <<>>]
    /\ sentTools' = [sentTools EXCEPT ![p] = <<>>]
    /\ mark' = [mark EXCEPT ![p] = NoMark]
    /\ snap' = [snap EXCEPT ![p] = <<>>]
    /\ UNCHANGED <<cvars, lvars, messages, owner, nQueries, nextId, nCalls>>

Next ==
    \/ \E stage \in ConnectStages : Startup(stage)
    \/ Shutdown
    \/ ServerToolsChange
    \/ ListTools
    \/ CallTool
    \/ \E p \in Requests, q \in Queries : Start(p, q)
    \/ \E p \in Requests : CallLLM(p)
    \/ \E p \in Requests : Classify(p)
    \/ \E p \in Requests : TextBlock(p)
    \/ \E p \in Requests : ToolCall(p)
    \/ \E p \in Requests : ToolReturn(p)
    \/ \E p \in Requests : Respond(p)

Spec == Init /\ [][Next]_vars

\* The event loop runs every coroutine that is ready: a handler that holds
\* the loop takes its next step, and a coroutine whose tool call has been
\* answered is resumed once the loop is free.  A model call that is let
\* through returns or raises.
Fairness ==
    \A p \in Requests :
        /\ WF_vars(CallLLM(p))
        /\ WF_vars(Classify(p))
        /\ WF_vars(TextBlock(p))
        /\ WF_vars(ToolCall(p))
        /\ WF_vars(ToolReturn(p))
        /\ WF_vars(Respond(p))

FairSpec == Spec /\ Fairness


\* ================================================================ claims
InFlight(p)     == pc[p] # "idle"
OneTextBlock(r) == Len(r) = 1 /\ r[1].type = "text"
ToolUses(r)     == {i \in DOMAIN r : r[i].type = "tool_use"}
CountIn(seq, m) == Cardinality({i \in DOMAIN seq : seq[i] = m})
TextMsg(t)      == [role |-> "assistant", content |-> [str |-> t]]
BlocksMsg(r)    == [role |-> "assistant", content |-> [list |-> r]]
QueryMsg(q)     == [role |-> "user", content |-> [str |-> q]]
ResultMsg(id)   ==
    [role |-> "user",
     content |-> [list |-> <<[type |-> "tool_result", tool_use_id |-> id,
                              content |-> ToolOut]>>]]

\* The subsequence of seq at the indices I, in order.
RECURSIVE Sub(_, _)
Sub(seq, I) ==
    IF I = {} THEN <<>>
    ELSE LET m == CHOOSE i \in I : \A j \in I : j <= i
         IN  Append(Sub(seq, I \ {m}), seq[m])

\* The transcript messages that the invocation of request p appended.
Own(p) == Sub(messages, {i \in DOMAIN messages : owner[i] = inv[p]})

\* The places of a returned list that hold auxiliary text messages: the
\* assistant messages with str content before the last message.
AuxPlaces(ms) ==
    {i \in 1..(Len(ms) - 1) :
        ms[i].role = "assistant" /\ DOMAIN ms[i].content = {"str"}}

\* C1: when the first model response of an invocation is exactly one text
\* block, the invocation makes no second model call and no tool call, and
\* what it returns is the user message with its query followed by the
\* assistant message with that text (a failed log write makes it raise).
C1_SingleTextReturnsTwo ==
    \A p \in Requests :
        (modelCalls[p] = 1 /\ resp[p] # NoResp /\ OneTextBlock(resp[p])) =>
            /\ pc[p] \in {"classify", "done", "raised"}
            /\ toolCalls[p] = 0
            /\ pc[p] = "raised" => err[p] = "log"
            /\ pc[p] = "done" =>
                   msgs[p] = <<QueryMsg(query[p]), TextMsg(resp[p][1].text)>>

C1_Witness ==
    \E p \in Requests :
        /\ pc[p] = "done" /\ modelCalls[p] = 1 /\ toolCalls[p] = 0
        /\ OneTextBlock(resp[p]) /\ Len(msgs[p]) = 2

\* C2: when an invocation calls the model again after a response with
\* exactly one tool_use block, it has made exactly one tool call for that
\* response and appended exactly one message after the assistant message,
\* the tool_result of that block, which is in the transcript the new call
\* sends; and it never returns while its last response is such a response.
C2_OneToolCallThenModelCall ==
    [][\A p \in Requests :
          /\ ( /\ modelCalls[p] >= 1
               /\ modelCalls'[p] = modelCalls[p] + 1
               /\ Cardinality(ToolUses(resp[p])) = 1 ) =>
                 LET id == resp[p][CHOOSE i \in ToolUses(resp[p]) : TRUE].id
                 IN  /\ toolCalls[p] - mark[p].calls = 1
                     /\ {i \in (mark[p].t + 2)..Len(messages) : owner[i] = inv[p]}
                            = {i \in DOMAIN messages : messages[i] = ResultMsg(id)}
                     /\ CountIn(messages, ResultMsg(id)) = 1
                     /\ CountIn(msgs[p], ResultMsg(id)) = 1
                     /\ sent'[p] = messages
                     /\ CountIn(sent'[p], ResultMsg(id)) = 1
          /\ ( pc'[p] = "done" => Cardinality(ToolUses(resp'[p])) # 1 )
      ]_vars

C2_Witness ==
    \E p \in Requests :
        /\ modelCalls[p] = 2 /\ toolCalls[p] = 1
        /\ pc[p] = "classify"
        /\ \E i \in DOMAIN sent[p] :
               /\ sent[p][i].role = "user"
               /\ DOMAIN sent[p][i].content = {"list"}

\* C3: process_query returns only when its last response is exactly one text
\* block; any other response is appended once, as one structured assistant
\* message, and the invocation goes on to the blocks and the next model call
\* (or raises), never to the return.
C3_ReturnsOnlyOnOneTextBlock ==
    \A p \in Requests :
        resp[p] # NoResp =>
            /\ pc[p] = "done" => OneTextBlock(resp[p])
            /\ ~OneTextBlock(resp[p]) =>
                   pc[p] \in {"classify", "blocks", "tool_wait", "call_llm", "raised"}
            /\ (~OneTextBlock(resp[p]) /\ pc[p] \in {"blocks", "tool_wait", "call_llm"}) =>
                   /\ messages[mark[p].t + 1] = BlocksMsg(resp[p])
                   /\ owner[mark[p].t + 1] = inv[p]
                   /\ msgs[p][mark[p].n + 1] = BlocksMsg(resp[p])
                   /\ \A i \in (mark[p].t + 2)..Len(messages) :
                          owner[i] = inv[p] => messages[i].role = "user"

C3_Witness ==
    \E p \in Requests :
        /\ pc[p] = "call_llm" /\ modelCalls[p] = 1
        /\ Len(resp[p]) = 2 /\ ToolUses(resp[p]) = {}

\* C4: a failed tool call makes process_query raise "Tool execution failed"
\* at once: the transcript is left as it is, it still starts with everything
\* it held when the call was issued, and the invocation makes no further tool
\* call or model call and processes no further block.
C4_ToolFailureAborts ==
    [][\A p \in Requests :
          /\ (err[p] = "none" /\ err'[p] = "tool") =>
                 /\ pc[p] = "tool_wait" /\ pc'[p] = "raised"
                 /\ errMsg'[p] = "Tool execution failed"
                 /\ messages' = messages
                 /\ IsPrefix(snap[p], messages')
                 /\ idx'[p] = idx[p]
                 /\ toolCalls'[p] = toolCalls[p]
                 /\ modelCalls'[p] = modelCalls[p]
          /\ err[p] = "tool" =>
                 /\ pc[p] = "raised"
                 /\ IsPrefix(snap[p], messages)
                 /\ \/ pc'[p] = "idle"
                    \/ /\ pc'[p] = "raised"
                       /\ idx'[p] = idx[p]
                       /\ toolCalls'[p] = toolCalls[p]
                       /\ modelCalls'[p] = modelCalls[p]
      ]_vars

C4_Witness ==
    \E p \in Requests :
        /\ pc[p] = "raised" /\ err[p] = "tool"
        /\ idx[p] < Len(resp[p])
        /\ Len(snap[p]) >= 2

\* C5: a failed model call makes process_query raise "Failed to call LLM" at
\* once: the transcript is exactly what it was before the call, the user
\* query of the invocation included, and the invocation makes no further
\* model call and no tool call.
C5_ModelFailureAborts ==
    [][\A p \in Requests :
          /\ (err[p] = "none" /\ err'[p] = "llm") =>
                 /\ pc[p] = "call_llm" /\ pc'[p] = "raised"
                 /\ errMsg'[p] = "Failed to call LLM"
                 /\ messages' = messages
                 /\ \E i \in DOMAIN messages' :
                        owner[i] = inv[p] /\ messages'[i] = QueryMsg(query[p])
                 /\ toolCalls'[p] = toolCalls[p]
          /\ err[p] = "llm" =>
                 /\ pc[p] = "raised"
                 /\ \/ pc'[p] = "idle"
                    \/ /\ pc'[p] = "raised"
                       /\ modelCalls'[p] = modelCalls[p]
                       /\ toolCalls'[p] = toolCalls[p]
      ]_vars

C5_Witness ==
    \E p \in Requests :
        /\ pc[p] = "raised" /\ err[p] = "llm"
        /\ modelCalls[p] = 2 /\ Len(messages) >= 3


\* C6 as stated: whenever process_query returns, the returned messages are
\* the last messages of the transcript, in order.
C6_ReturnedIsSuffix ==
    \A p \in Requests : pc[p] = "done" => IsSuffix(msgs[p], messages)

\* C6 as amended: whenever process_query returns, the returned messages less
\* the auxiliary text messages of non-final responses are exactly the
\* messages this invocation appended to the transcript, in transcript order,
\* and the last returned message is the last transcript message; they are a
\* suffix of the transcript when there is no auxiliary message and no other
\* invocation appended after this one's user message.
C6_ReturnedLessAuxIsOwn ==
    \A p \in Requests :
        pc[p] = "done" =>
            /\ Sub(msgs[p], DOMAIN msgs[p] \ AuxPlaces(msgs[p])) = Own(p)
            /\ msgs[p][Len(msgs[p])] = messages[Len(messages)]
            /\ ( /\ AuxPlaces(msgs[p]) = {}
                 /\ \A i, j \in DOMAIN messages :
                        (owner[i] = inv[p] /\ i < j) => owner[j] = inv[p] )
                   => IsSuffix(msgs[p], messages)

C6_Witness ==
    \E p \in Requests :
        /\ pc[p] = "done"
        /\ AuxPlaces(msgs[p]) # {}
        /\ \E i \in DOMAIN msgs[p] : DOMAIN msgs[p][i].content = {"list"}
        /\ ~IsSuffix(msgs[p], messages)

\* C7 as stated: while two invocations are in flight, the transcript that
\* one of them has sent to the model holds no message appended by the other,
\* and every message appended after an in-flight invocation's user message
\* is its own.
C7_TranscriptOwnedByOneInvocation ==
    \A p \in Requests :
        InFlight(p) =>
            /\ \A o \in Requests \ {p} :
                   InFlight(o) => \A i \in 1..Len(sent[p]) : owner[i] # inv[o]
            /\ \A i, j \in DOMAIN messages :
                   (owner[i] = inv[p] /\ i < j) => owner[j] = inv[p]

\* C8 as stated: with no other invocation in flight, the transcript a model
\* call sends is what a fresh session would send for the same query and the
\* same responses: the messages this invocation has appended, and no others.
C8_SentIsOwnTranscript ==
    \A p \in Requests :
        (pc[p] = "classify" /\ \A o \in Requests \ {p} : ~InFlight(o)) =>
            sent[p] = Own(p)

\* C9: in every step the old transcript is a prefix of the new one.
C9_AppendOnly == [][IsPrefix(messages, messages')]_vars

C9_Witness ==
    /\ Len(messages) >= 4
    /\ \E i, j \in DOMAIN owner : owner[i] # owner[j]
    /\ \E p \in Requests : pc[p] = "raised"

\* C10 as stated: while the session is connected, the catalog GET /tools
\* answers with equals the catalog a model call sends.
C10_ListingEqualsModelCatalog ==
    app = "serving" => ToolsListing = tools

\* C11 as stated: no log write goes to a file that an earlier log write
\* created: there are as many log files as there were log writes.
C11_EveryLogWriteNewFile == Cardinality(files) = nLogs

\* C12: cleanup has run exactly once when the application has stopped and
\* not at all before, whether the connection succeeded or failed, and no
\* exception ever leaves cleanup, also not when the connection never
\* succeeded.
C12_CleanupOnceNeverRaises ==
    /\ cleanups = IF app = "stopped" THEN 1 ELSE 0
    /\ closeErr # "raised"

C12_Witness ==
    /\ app = "stopped" /\ cleanups = 1
    /\ tools = <<>> /\ session = "none"
    /\ closeErr = "logged"

\* C13: once a failed startup has left lifespan, every context that
\* connect_to_server entered is closed, also when it failed at
\* session.initialize or at get_mcp_tools with the transport and the session
\* entered.
C13_FailedConnectTornDown ==
    (app = "stopped" /\ tools = <<>>) => stack = <<>>

C13_Witness ==
    /\ app = "stopped" /\ tools = <<>>
    /\ session = "open" /\ cleanups = 1 /\ stack = <<>>

\* The tool_use blocks of a response, in block order, and the tool_result
\* messages of the first k of them.
ToolBlocks(r)   == Sub(r, ToolUses(r))
ResultsOf(r, k) == [j \in 1..k |-> ResultMsg(ToolBlocks(r)[j].id)]

\* What the invocation of request p has appended to the transcript after
\* the assistant message of its last response.
OwnSince(p) ==
    Sub(messages, {i \in (mark[p].t + 2)..Len(messages) : owner[i] = inv[p]})

\* C14: a tool call is issued for a tool_use block only when the calls for
\* the tool_use blocks before it have been made and their tool_result
\* messages, and nothing else, have been appended in block order; and the
\* next model call is made only when that holds for all n tool_use blocks
\* of the response: n calls, n tool_result messages in block order, each
\* with the id of its own block, all in the transcript the call sends.
C14_ToolCallsInBlockOrder ==
    [][\A p \in Requests :
          /\ (pc[p] = "blocks" /\ pc'[p] = "tool_wait") =>
                 LET k == Cardinality({j \in ToolUses(resp[p]) : j < idx[p]})
                 IN  /\ resp[p][idx[p]].type = "tool_use"
                     /\ toolCalls[p] - mark[p].calls = k
                     /\ toolCalls'[p] = toolCalls[p] + 1
                     /\ OwnSince(p) = ResultsOf(resp[p], k)
          /\ (modelCalls[p] >= 1 /\ modelCalls'[p] = modelCalls[p] + 1) =>
                 LET n == Cardinality(ToolUses(resp[p]))
                 IN  /\ toolCalls[p] - mark[p].calls = n
                     /\ OwnSince(p) = ResultsOf(resp[p], n)
                     /\ sent'[p] = messages
      ]_vars

C14_Witness ==
    \E p \in Requests :
        /\ modelCalls[p] = 2 /\ toolCalls[p] = 2
        /\ \E i, j \in DOMAIN sent[p] :
               /\ i < j
               /\ sent[p][i] = ResultMsg(1)
               /\ sent[p][j] = ResultMsg(2)

\* C15: the step that processes a text block of a non-final response
\* leaves the transcript as it is and, unless the log write fails, adds the
\* text as one assistant message to the list that is returned; and no
\* transcript an invocation sends to the model holds a text message of its
\* own (its only str-content assistant message would be its final answer).
C15_TextBlockLeavesTranscript ==
    [][\A p \in Requests :
          /\ ( /\ pc[p] = "blocks" /\ resp[p][idx[p]].type = "text"
               /\ <<pc'[p], idx'[p]>> # <<pc[p], idx[p]>> ) =>
                 /\ messages' = messages
                 /\ owner' = owner
                 /\ \/ pc'[p] = "raised" /\ msgs'[p] = msgs[p]
                    \/ msgs'[p] = Append(msgs[p], TextMsg(resp[p][idx[p]].text))
          /\ modelCalls'[p] = modelCalls[p] + 1 =>
                 \A i \in DOMAIN sent'[p] :
                     owner[i] = inv[p] =>
                         ~( /\ sent'[p][i].role = "assistant"
                            /\ DOMAIN sent'[p][i].content = {"str"} )
      ]_vars

C15_Witness ==
    \E p \in Requests :
        /\ modelCalls[p] = 2 /\ pc[p] = "classify"
        /\ CountIn(msgs[p], TextMsg(Text)) = 2
        /\ CountIn(sent[p], TextMsg(Text)) = 0
        /\ Len(sent[p]) = 2

\* What a step of request o changes: where it stands and what it counts.
StepOf(o) ==
    <<pc[o], idx[o], msgs[o], modelCalls[o], toolCalls[o]>>

\* C16: while an invocation is in flight and not suspended in its tool
\* call, it has the event loop and no other request takes a step: no other
\* request's position, local list or counters change and the transcript
\* gets no message of another invocation.  (The model call is made on the
\* synchronous client, so of the two suspend points only the tool call lets
\* other requests in.)
C16_InterleavingOnlyAtSuspendPoints ==
    [][\A p \in Requests :
          (InFlight(p) /\ pc[p] # "tool_wait") =>
              /\ cur = p
              /\ \A o \in Requests \ {p} : StepOf(o)' = StepOf(o)
              /\ \A i \in (Len(messages) + 1)..Len(messages') : owner'[i] = inv[p]
      ]_vars

C16_Witness ==
    \E p, o \in Requests :
        /\ p # o
        /\ pc[p] = "tool_wait" /\ InFlight(o) /\ cur = o
        /\ Len(snap[p]) < Len(messages)
        /\ owner[Len(messages)] = inv[o]
        /\ modelCalls[o] = 1

\* The hypotheses of C17 on a run: nothing raises (no model call, tool
\* call or log write fails), and every model call returns (a call beyond
\* the last one the model answers does not).
NothingFails     == [](\A o \in Requests : err[o] = "none")
ModelCallsReturn == \A o \in Requests : (pc[o] = "call_llm" ~> pc[o] = "classify")

\* C17: in a run where nothing fails, an invocation that receives a
\* response of exactly one text block returns; and where in addition every
\* model call returns, every invocation returns, after however many model
\* calls the responses made it take.
C17_Terminates ==
    \A p \in Requests :
        /\ NothingFails =>
               ((pc[p] = "classify" /\ OneTextBlock(resp[p])) ~> pc[p] = "done")
        /\ (NothingFails /\ ModelCallsReturn) =>
               (InFlight(p) ~> pc[p] = "done")

C17_Witness ==
    \E p \in Requests :
        /\ pc[p] = "done" /\ err[p] = "none"
        /\ modelCalls[p] = MaxCalls
        /\ toolCalls[p] >= 1

\* C18 as stated: in every transcript sent with a model call, each
\* assistant message with tool_use blocks is followed at once by the
\* tool_result messages of those blocks, one per block, in block order and
\* with the blocks' ids.
C18_ToolUsesAnswered ==
    \A p \in Requests :
        \A i \in DOMAIN sent[p] :
            (sent[p][i].role = "assistant" /\ DOMAIN sent[p][i].content = {"list"}) =>
                LET r == sent[p][i].content.list
                    n == Cardinality(ToolUses(r))
                IN  /\ i + n <= Len(sent[p])
                    /\ \A k \in 1..n : sent[p][i + k] = ResultsOf(r, n)[k]

\* C19 as stated: when process_query raises "Tool execution failed" for a
\* tool_use block, the tool call for that block failed and the transcript
\* holds no tool_result message with the id of that block.
C19_ToolFailedOnlyWhenToolFailed ==
    \A p \in Requests :
        (pc[p] = "raised" /\ errMsg[p] = "Tool execution failed") =>
            /\ err[p] = "tool"
            /\ CountIn(messages, ResultMsg(resp[p][idx[p]].id)) = 0

=============================================================================
